---- MODULE Spec2Model ----
(***************************************************************************)
(* Model of src/env/fallback.rs: LogFd (a std::fs::File), LogFile (a       *)
(* stream built by LogFile::new from an Arc<LogFd>) and DefaultFileSystem. *)
(*                                                                         *)
(* The host is modelled as far as the code uses it: a directory of paths,  *)
(* inodes holding bytes, and a descriptor table whose entries are open     *)
(* file descriptions (inode, position, write permission).  A File value is *)
(* a descriptor number; dropping a File calls close() on that number and   *)
(* ignores the result.  open() returns the lowest free number (POSIX).     *)
(***************************************************************************)
EXTENDS Integers, Sequences, FiniteSets, TLC

\* ---------------------------------------------------------------- bounds
NumHandles == 2     \* Arc<LogFd> allocations the run may create
NumStreams == 2     \* LogFile values a free run may construct
MaxSize == 2        \* longest file, and largest position, explored
NumInodes == 1      \* files that exist at once (named by a path, or open)
MaxByte == 2        \* written bytes are 1..MaxByte
MaxFaults == 1      \* host calls that fail for a reason outside the model, per run

Paths == {"a", "b"}
Bytes == 1..MaxByte                      \* written data; 0 is the zero fill
Handles == 1..NumHandles
Streams == 1..(NumStreams + 1)           \* a scripted scenario may build one more
Fds == 0..(NumHandles - 1)               \* at most one descriptor per create/open
Inodes == 1..NumInodes
Perms == {"ReadOnly", "ReadWrite"}

VARIABLES
    dir,        \* host: path -> inode, 0 when the path does not exist
    inodes,     \* host: inode -> [used, data]
    fdt,        \* host: descriptor number -> open file description
    handles,    \* Arc<LogFd> allocations
    streams,    \* LogFile values
    pc,         \* per stream: the operation a thread is executing on it
    hpc,        \* per handle: the Handle operation a thread is executing on it
    lock,       \* per stream: state of its RwLock<LogFd>
    script      \* the caller: the scenario it runs and what its calls returned

vars == <<dir, inodes, fdt, handles, streams, pc, hpc, lock, script>>
host == <<dir, inodes, fdt>>
conc == <<pc, hpc, lock>>

\* ---------------------------------------------------------------- values
Max(a, b) == IF a >= b THEN a ELSE b
Min(a, b) == IF a <= b THEN a ELSE b

NoInode == [used |-> FALSE, data |-> <<>>]
ClosedFd == [open |-> FALSE, ino |-> 0, pos |-> 0, wr |-> FALSE]
NoHandle == [st |-> "free", fd |-> 0, refs |-> 0, leaked |-> 0, closes |-> 0]
NoStream == [st |-> "unused", h |-> 0, fd |-> 0, offset |-> 0]
Unlocked == [readers |-> 0, writer |-> FALSE]

\* IoResult values: Ok(n), Ok(data), Err(kind).
Ok(n) == [ok |-> TRUE, err |-> "", n |-> n, data |-> <<>>]
OkData(d) == [ok |-> TRUE, err |-> "", n |-> Len(d), data |-> d]
Err(kind) == [ok |-> FALSE, err |-> kind, n |-> 0, data |-> <<>>]


\* ---------------------------------------------------------------- host
\* An inode lives while a path names it or an open description refers to it.
Reap(d, ino, f) ==
    [i \in Inodes |->
        IF ino[i].used /\ ((\E p \in Paths : d[p] = i)
                           \/ (\E x \in Fds : f[x].open /\ f[x].ino = i))
        THEN ino[i] ELSE NoInode]

FreeInode == CHOOSE i \in Inodes : ~inodes[i].used /\ \A j \in Inodes : j < i => inodes[j].used
FreeFd == CHOOSE x \in Fds : ~fdt[x].open /\ \A y \in Fds : y < x => fdt[y].open
FreeHandle == CHOOSE h \in Handles : handles[h].st = "free"
                  /\ \A g \in Handles : g < h => handles[g].st # "free"
FreeStream == CHOOSE s \in Streams : streams[s].st = "unused"
                  /\ \A t \in Streams : t < s => streams[t].st # "unused"

\* close(2) on a descriptor number: closes whatever description the number
\* names now; on a number that is not open it fails with EBADF, ignored by drop.
Close(f, x) == [f EXCEPT ![x] = ClosedFd]

\* pwrite-like overwrite of data at position pos (0-based); a gap is zero filled.
Overwrite(data, pos, buf) ==
    [i \in 1..Max(Len(data), pos + Len(buf)) |->
        IF i > pos /\ i <= pos + Len(buf) THEN buf[i - pos]
        ELSE IF i <= Len(data) THEN data[i] ELSE 0]

\* A resize that can shrink a file and never extends one.
Resize_shrink(data, n) == SubSeq(data, 1, Min(n, Len(data)))

\* ftruncate: the prefix is kept, an extension is zero filled.
Resize(data, n) == [i \in 1..n |-> IF i <= Len(data) THEN data[i] ELSE 0]

\* The bytes read(2) returns for a request of len bytes at position pos.
ReadAt(data, pos, len) ==
    IF pos >= Len(data) THEN <<>>
    ELSE SubSeq(data, pos + 1, Min(Len(data), pos + len))

\* ---------------------------------------------------------------- LogFd
\* Each operator gives the host state after the call and the call's result:
\* [d |-> directory, f |-> descriptor table, i |-> inodes, res |-> IoResult].
Same(res) == [d |-> dir, f |-> fdt, i |-> inodes, res |-> res]

Opened(ino, wr) == [open |-> TRUE, ino |-> ino, pos |-> 0, wr |-> wr]

\* LogFd::open: File::options().read(true).write(perm == ReadWrite).open(path).
\* Never creates.  Ok carries the new descriptor number.
LogFd_open(p, perm) ==
    IF dir[p] = 0 THEN Same(Err("NotFound"))
    ELSE [d |-> dir,
          f |-> [fdt EXCEPT ![FreeFd] = Opened(dir[p], perm = "ReadWrite")],
          i |-> inodes,
          res |-> Ok(FreeFd)]

\* A create that replaces: an existing file is emptied (truncate(true)).
LogFd_create_replace(p) ==
    IF dir[p] = 0
    THEN [d |-> [dir EXCEPT ![p] = FreeInode],
          f |-> [fdt EXCEPT ![FreeFd] = Opened(FreeInode, TRUE)],
          i |-> [inodes EXCEPT ![FreeInode] = [used |-> TRUE, data |-> <<>>]],
          res |-> Ok(FreeFd)]
    ELSE [d |-> dir,
          f |-> [fdt EXCEPT ![FreeFd] = Opened(dir[p], TRUE)],
          i |-> [inodes EXCEPT ![dir[p]].data = <<>>],
          res |-> Ok(FreeFd)]

\* LogFd::create: File::options().read(true).write(true).create(true).open(path).
\* An existing file is opened as it is (no truncate option is set).
LogFd_create(p) ==
    IF dir[p] = 0
    THEN [d |-> [dir EXCEPT ![p] = FreeInode],
          f |-> [fdt EXCEPT ![FreeFd] = Opened(FreeInode, TRUE)],
          i |-> [inodes EXCEPT ![FreeInode] = [used |-> TRUE, data |-> <<>>]],
          res |-> Ok(FreeFd)]
    ELSE [d |-> dir,
          f |-> [fdt EXCEPT ![FreeFd] = Opened(dir[p], TRUE)],
          i |-> inodes,
          res |-> Ok(FreeFd)]

\* A truncate that reports success and resizes nothing.
LogFd_truncate_noop(x, n) == Same(Ok(0))

\* File::set_len (ftruncate): needs an open descriptor opened for writing;
\* the position is left where it was.
LogFd_truncate(x, n) ==
    LET e == fdt[x] IN
    IF ~e.open THEN Same(Err("BadFd"))
    ELSE IF ~e.wr THEN Same(Err("InvalidInput"))
    ELSE [d |-> dir, f |-> fdt,
          i |-> [inodes EXCEPT ![e.ino].data = Resize(@, n)],
          res |-> Ok(0)]

\* An allocate that reserves the range the way fallocate does, growing the file.
LogFd_allocate_grow(x, off, size) ==
    LET e == fdt[x] IN
    IF ~e.open \/ ~e.wr THEN Same(Err("BadFd"))
    ELSE [d |-> dir, f |-> fdt,
          i |-> [inodes EXCEPT ![e.ino].data =
                    IF Len(@) < off + size THEN @ \o [k \in 1..(off + size - Len(@)) |-> 0]
                    ELSE @],
          res |-> Ok(0)]

\* allocate does nothing and reports success.
LogFd_allocate(x, off, size) == Same(Ok(0))

\* A size taken from the descriptor's position instead of the file's metadata.
LogFd_size_position(x) ==
    LET e == fdt[x] IN
    IF ~e.open THEN Same(Err("BadFd")) ELSE Same(Ok(e.pos))

\* File::metadata().len() (fstat).
LogFd_size(x) ==
    LET e == fdt[x] IN
    IF ~e.open THEN Same(Err("BadFd")) ELSE Same(Ok(Len(inodes[e.ino].data)))

\* File::sync_data (fdatasync).
LogFd_sync(x) ==
    IF ~fdt[x].open THEN Same(Err("BadFd")) ELSE Same(Ok(0))

\* File::write: at the description's position, which it advances.
File_write(x, buf) ==
    LET e == fdt[x] IN
    IF ~e.open \/ ~e.wr THEN Same(Err("BadFd"))
    ELSE [d |-> dir,
          f |-> [fdt EXCEPT ![x].pos = e.pos + Len(buf)],
          i |-> [inodes EXCEPT ![e.ino].data = Overwrite(@, e.pos, buf)],
          res |-> Ok(Len(buf))]

\* File::flush: a File has no user-space buffer; always Ok.
File_flush(x) == Same(Ok(0))

\* File::read: from the description's position, which it advances.
File_read(x, len) ==
    LET e == fdt[x] IN
    IF ~e.open THEN Same(Err("BadFd"))
    ELSE LET got == ReadAt(inodes[e.ino].data, e.pos, len) IN
         [d |-> dir,
          f |-> [fdt EXCEPT ![x].pos = e.pos + Len(got)],
          i |-> inodes,
          res |-> OkData(got)]

\* SeekFrom: <<"Start", n>>, <<"Current", k>>, <<"End", k>>.
SeekTarget(e, from) ==
    CASE from[1] = "Start" -> from[2]
      [] from[1] = "Current" -> e.pos + from[2]
      [] from[1] = "End" -> Len(inodes[e.ino].data) + from[2]

\* A seek that stops at the start of the file instead of failing.
File_seek_clamped(x, from) ==
    LET e == fdt[x] IN
    IF ~e.open THEN Same(Err("BadFd"))
    ELSE LET t == Max(0, SeekTarget(e, from)) IN
         [d |-> dir, f |-> [fdt EXCEPT ![x].pos = t], i |-> inodes, res |-> Ok(t)]

\* File::seek (lseek): a negative target is EINVAL and nothing moves.
File_seek(x, from) ==
    LET e == fdt[x] IN
    IF ~e.open THEN Same(Err("BadFd"))
    ELSE LET t == SeekTarget(e, from) IN
         IF t < 0 THEN Same(Err("InvalidInput"))
         ELSE [d |-> dir, f |-> [fdt EXCEPT ![x].pos = t], i |-> inodes, res |-> Ok(t)]

\* Dropping a File (a LogFd, or the copy a LogFile holds): close(fd), result ignored.
File_drop(x) ==
    [d |-> dir, f |-> Close(fdt, x), i |-> Reap(dir, inodes, Close(fdt, x)), res |-> Ok(0)]

\* A delete that treats a missing file as already deleted.
remove_file_lenient(p) ==
    LET nd == [dir EXCEPT ![p] = 0] IN
    [d |-> nd, f |-> fdt, i |-> Reap(nd, inodes, fdt), res |-> Ok(0)]

\* std::fs::remove_file (unlink): the inode lives on while a description is open.
remove_file(p) ==
    IF dir[p] = 0 THEN Same(Err("NotFound"))
    ELSE LET nd == [dir EXCEPT ![p] = 0] IN
         [d |-> nd, f |-> fdt, i |-> Reap(nd, inodes, fdt), res |-> Ok(0)]

\* A rename that makes dst name the file and leaves src naming it too.
fs_rename_link(src, dst) ==
    IF dir[src] = 0 THEN Same(Err("NotFound"))
    ELSE LET nd == [dir EXCEPT ![dst] = dir[src]] IN
         [d |-> nd, f |-> fdt, i |-> Reap(nd, inodes, fdt), res |-> Ok(0)]

\* std::fs::rename: dst, when it exists, is replaced.
fs_rename(src, dst) ==
    IF dir[src] = 0 THEN Same(Err("NotFound"))
    ELSE LET nd == IF src = dst THEN dir ELSE [dir EXCEPT ![dst] = dir[src], ![src] = 0] IN
         [d |-> nd, f |-> fdt, i |-> Reap(nd, inodes, fdt), res |-> Ok(0)]

\* ---------------------------------------------------------------- LogFile
\* LogFile::new(fd: Arc<LogFd>): Arc::into_raw gives up the Arc without
\* decrementing its count, .read() copies the LogFd (the descriptor number) out
\* of the allocation, and the copy goes into a new Arc<RwLock<LogFd>> of the
\* stream's own, with offset 0.
LogFile_new(h) == [st |-> "live", h |-> h, fd |-> handles[h].fd, offset |-> 0]

\* inner(): RwLock::read on the stream's lock; inner_mut(): RwLock::write.
CanRead(l) == ~l.writer
CanWrite(l) == ~l.writer /\ l.readers = 0
ReadLocked(l) == [l EXCEPT !.readers = @ + 1]
WriteLocked(l) == [l EXCEPT !.writer = TRUE]
ReadUnlocked(l) == [l EXCEPT !.readers = @ - 1]
WriteUnlocked(l) == [l EXCEPT !.writer = FALSE]

\* The guard each stream operation takes.
LockMode(op) == IF op \in {"truncate", "allocate"} THEN "read" ELSE "write"
CanLock(op, l) == IF LockMode(op) = "read" THEN CanRead(l) ELSE CanWrite(l)
Locked(op, l) == IF LockMode(op) = "read" THEN ReadLocked(l) ELSE WriteLocked(l)
Released(op, l) == IF LockMode(op) = "read" THEN ReadUnlocked(l) ELSE WriteUnlocked(l)

\* What each LogFile method does between taking its lock and returning.
\*   write, flush, read, seek: self.inner_mut().0.<op>(..)
\*   truncate: self.inner().truncate(offset)?; self.offset = offset
\*   allocate: self.inner().allocate(offset, size)
\* A stream that seeks relative to its own offset field.
StreamCall_cursor(s, op, a) ==
    LET x == streams[s].fd IN
    CASE op = "write" -> File_write(x, a)
      [] op = "flush" -> File_flush(x)
      [] op = "read" -> File_read(x, a)
      [] op = "seek" -> File_seek(x, IF a[1] = "Current"
                                     THEN <<"Start", streams[s].offset + a[2]>>
                                     ELSE a)
      [] op = "truncate" -> LogFd_truncate(x, a)
      [] op = "allocate" -> LogFd_allocate(x, a[1], a[2])

StreamCall(s, op, a) ==
    LET x == streams[s].fd IN
    CASE op = "write" -> File_write(x, a)
      [] op = "flush" -> File_flush(x)
      [] op = "read" -> File_read(x, a)
      [] op = "seek" -> File_seek(x, a)
      [] op = "truncate" -> LogFd_truncate(x, a)
      [] op = "allocate" -> LogFd_allocate(x, a[1], a[2])

\* <LogFd as Handle>::truncate / file_size / sync.
HandleCall(h, op, n) ==
    LET x == handles[h].fd IN
    CASE op = "truncate" -> LogFd_truncate(x, n)
      [] op = "file_size" -> LogFd_size(x)
      [] op = "sync" -> LogFd_sync(x)

\* ---------------------------------------------------------------- sets of inputs
WriteBufs == UNION {[1..k -> Bytes] : k \in 1..MaxSize}
ReadLens == 1..MaxSize
Offsets == 0..MaxSize
SeekFroms == ({"Start"} \X Offsets) \cup ({"Current"} \X {-1, 1}) \cup ({"End"} \X {-1, 0, 1})
AllocArgs == Offsets \X {MaxSize}
StreamOps == {"write", "flush", "read", "seek", "truncate", "allocate"}
HandleOps == {"truncate", "file_size", "sync"}

Live(s) == streams[s].st = "live"
Held(h) == handles[h].st = "live" /\ handles[h].refs >= 1
Idle(s) == pc[s] = "idle"
HasFree(S, st) == \E x \in DOMAIN S : S[x].st = st

\* ---------------------------------------------------------------- state
\* A file the host may already hold at a path before the first call.
NoFile == [exists |-> FALSE, data |-> <<>>]
OldFile(data) == [exists |-> TRUE, data |-> data]

NoScript == [name |-> "none", calls |-> <<>>, log |-> <<>>, pre |-> NoFile, failed |-> {}]

Init ==
    /\ dir = [p \in Paths |-> 0]
    /\ inodes = [i \in Inodes |-> NoInode]
    /\ fdt = [x \in Fds |-> ClosedFd]
    /\ handles = [h \in Handles |-> NoHandle]
    /\ streams = [s \in Streams |-> NoStream]
    /\ pc = [s \in Streams |-> "idle"]
    /\ hpc = [h \in Handles |-> "idle"]
    /\ lock = [s \in Streams |-> Unlocked]
    /\ script = NoScript

Apply(e) == dir' = e.d /\ fdt' = e.f /\ inodes' = e.i

\* ---------------------------------------------------------------- FileSystem
\* The Handle a successful open/create returns, put by the caller in an Arc.
NewHandle(x) == [st |-> "live", fd |-> x, refs |-> 1, leaked |-> 0, closes |-> 0]

\* DefaultFileSystem::open.
FS_open(p, perm) ==
    /\ dir[p] = 0 \/ HasFree(handles, "free")
    /\ LET e == LogFd_open(p, perm) IN
       /\ Apply(e)
       /\ handles' = IF e.res.ok
                     THEN [handles EXCEPT ![FreeHandle] = NewHandle(e.res.n)]
                     ELSE handles
    /\ UNCHANGED <<streams, conc>>

\* DefaultFileSystem::create.
FS_create(p) ==
    /\ HasFree(handles, "free")
    /\ dir[p] = 0 => \E i \in Inodes : ~inodes[i].used
    /\ LET e == LogFd_create(p) IN
       /\ Apply(e)
       /\ handles' = [handles EXCEPT ![FreeHandle] = NewHandle(e.res.n)]
    /\ UNCHANGED <<streams, conc>>

\* DefaultFileSystem::delete.
FS_delete(p) ==
    /\ Apply(remove_file(p))
    /\ UNCHANGED <<handles, streams, conc>>

\* DefaultFileSystem::rename.
FS_rename(src, dst) ==
    /\ Apply(fs_rename(src, dst))
    /\ UNCHANGED <<handles, streams, conc>>

\* new_reader / new_writer: Ok(LogFile::new(handle)).  The caller passes an
\* Arc<LogFd> by value: a fresh clone of the Arc it holds (moved = FALSE) or the
\* Arc it holds (moved = TRUE).  Either way the count the argument carried is
\* never given back (Arc::into_raw).
NewStream(h, moved) ==
    /\ Held(h) /\ hpc[h] = "idle"
    /\ HasFree(streams, "unused")
    /\ streams' = [streams EXCEPT ![FreeStream] = LogFile_new(h)]
    /\ handles' = [handles EXCEPT ![h].leaked = @ + 1,
                                  ![h].refs = IF moved THEN @ - 1 ELSE @]
    /\ UNCHANGED <<host, conc>>

new_reader(h, moved) == NewStream(h, moved)
new_writer(h, moved) == NewStream(h, moved)

\* ---------------------------------------------------------------- ownership
\* Drop of the Arc<LogFd> the caller holds.  The LogFd inside is dropped, and
\* its File closed, when the strong count (refs + leaked) reaches 0.
DropHandle(h) ==
    /\ Held(h) /\ hpc[h] = "idle"
    /\ IF handles[h].refs + handles[h].leaked = 1
       THEN /\ handles' = [handles EXCEPT ![h] =
                    [@ EXCEPT !.st = "dropped", !.refs = 0, !.closes = @ + 1]]
            /\ Apply(File_drop(handles[h].fd))
       ELSE /\ handles' = [handles EXCEPT ![h].refs = @ - 1]
            /\ UNCHANGED host
    /\ UNCHANGED <<streams, conc>>

\* Drop of a LogFile: its Arc<RwLock<LogFd>> has one owner, so the LogFd copy
\* inside is dropped and its File closed.
DropStream(s) ==
    /\ Live(s) /\ Idle(s)
    /\ streams' = [streams EXCEPT ![s] = [NoStream EXCEPT !.st = "dropped"]]
    /\ handles' = [handles EXCEPT ![streams[s].h].closes = @ + 1]
    /\ Apply(File_drop(streams[s].fd))
    /\ UNCHANGED conc

\* ---------------------------------------------------------------- Handle operations
\* Called through an Arc<LogFd>: no lock is taken.
HandleEffect(h, op, n) ==
    /\ Apply(HandleCall(h, op, n))
    /\ UNCHANGED <<handles, streams>>

Handle_truncate(h, n) ==
    Held(h) /\ hpc[h] = "idle" /\ HandleEffect(h, "truncate", n) /\ UNCHANGED conc
Handle_file_size(h) ==
    Held(h) /\ hpc[h] = "idle" /\ HandleEffect(h, "file_size", 0) /\ UNCHANGED conc
Handle_sync(h) ==
    Held(h) /\ hpc[h] = "idle" /\ HandleEffect(h, "sync", 0) /\ UNCHANGED conc

\* ---------------------------------------------------------------- stream operations
\* The model explores files and positions up to MaxSize.
InBounds(s, op, a) ==
    LET e == fdt[streams[s].fd] IN
    CASE op = "write" -> e.open => e.pos + Len(a) <= MaxSize
      [] op = "seek" -> e.open => SeekTarget(e, a) <= MaxSize
      [] OTHER -> TRUE

\* A truncate that records its argument whether or not it succeeded.
StreamEffect_eager(s, op, a) ==
    LET e == StreamCall(s, op, a) IN
    /\ InBounds(s, op, a)
    /\ Apply(e)
    /\ streams' = IF op = "truncate"
                  THEN [streams EXCEPT ![s].offset = a]
                  ELSE streams
    /\ UNCHANGED handles

StreamEffect(s, op, a) ==
    LET e == StreamCall(s, op, a) IN
    /\ InBounds(s, op, a)
    /\ Apply(e)
    /\ streams' = IF op = "truncate" /\ e.res.ok
                  THEN [streams EXCEPT ![s].offset = a]
                  ELSE streams
    /\ UNCHANGED handles

\* A whole call on a stream no other thread is using: lock, act, unlock.
StreamOp(s, op, a) ==
    /\ Live(s) /\ Idle(s)
    /\ CanLock(op, lock[s])
    /\ StreamEffect(s, op, a)
    /\ UNCHANGED conc

LogFile_write(s, buf) == StreamOp(s, "write", buf)
LogFile_flush(s) == StreamOp(s, "flush", 0)
LogFile_read(s, len) == StreamOp(s, "read", len)
LogFile_seek(s, from) == StreamOp(s, "seek", from)
LogFile_truncate(s, n) == StreamOp(s, "truncate", n)
LogFile_allocate(s, off, size) == StreamOp(s, "allocate", <<off, size>>)

\* ---------------------------------------------------------------- specification
Built == Cardinality({s \in Streams : streams[s].st # "unused"})

\* A call by a caller that follows no script.
Free(A) == A /\ UNCHANGED script

FileSystemStep ==
    \/ \E p \in Paths : Free(FS_create(p))
    \/ \E p \in Paths, perm \in Perms : Free(FS_open(p, perm))
    \/ \E p \in Paths : Free(FS_delete(p))
    \/ \E p, q \in Paths : Free(FS_rename(p, q))
    \/ \E h \in Handles, moved \in BOOLEAN : Built < NumStreams /\ Free(new_reader(h, moved))
    \/ \E h \in Handles, moved \in BOOLEAN : Built < NumStreams /\ Free(new_writer(h, moved))

OwnershipStep ==
    \/ \E h \in Handles : Free(DropHandle(h))
    \/ \E s \in Streams : Free(DropStream(s))

HandleStep ==
    \/ \E h \in Handles, n \in Offsets : Free(Handle_truncate(h, n))
    \/ \E h \in Handles : Free(Handle_file_size(h))
    \/ \E h \in Handles : Free(Handle_sync(h))

StreamStep ==
    \/ \E s \in Streams, buf \in WriteBufs : Free(LogFile_write(s, buf))
    \/ \E s \in Streams : Free(LogFile_flush(s))
    \/ \E s \in Streams, len \in ReadLens : Free(LogFile_read(s, len))
    \/ \E s \in Streams, from \in SeekFroms : Free(LogFile_seek(s, from))
    \/ \E s \in Streams, n \in Offsets : Free(LogFile_truncate(s, n))
    \/ \E s \in Streams, a \in AllocArgs : Free(LogFile_allocate(s, a[1], a[2]))

\* Any caller, any order of calls, each call run to completion.
Next == FileSystemStep \/ OwnershipStep \/ HandleStep \/ StreamStep

Spec == Init /\ [][Next]_vars

\* ---------------------------------------------------------------- threads
\* A stream call split where another thread can run: taking the lock
\* (inner / inner_mut), then the operation on the File and the release of the
\* guard when the method returns.  pc[s] names the call in progress on stream s.
Begin(s, op) ==
    /\ Live(s) /\ Idle(s)
    /\ CanLock(op, lock[s])
    /\ pc' = [pc EXCEPT ![s] = op]
    /\ lock' = [lock EXCEPT ![s] = Locked(op, @)]
    /\ UNCHANGED <<host, handles, streams, hpc>>

ArgsOf(op) ==
    CASE op = "write" -> WriteBufs
      [] op = "read" -> ReadLens
      [] op = "seek" -> SeekFroms
      [] op = "truncate" -> Offsets
      [] op = "allocate" -> AllocArgs
      [] OTHER -> {0}

\* A call that gives its guard back only when it succeeded.
End_kept(s, a) ==
    /\ Live(s) /\ ~Idle(s)
    /\ StreamEffect(s, pc[s], a)
    /\ pc' = [pc EXCEPT ![s] = "idle"]
    /\ lock' = [lock EXCEPT ![s] = IF StreamCall(s, pc[s], a).res.ok
                                   THEN Released(pc[s], @) ELSE @]
    /\ UNCHANGED hpc

End(s, a) ==
    /\ Live(s) /\ ~Idle(s)
    /\ StreamEffect(s, pc[s], a)
    /\ pc' = [pc EXCEPT ![s] = "idle"]
    /\ lock' = [lock EXCEPT ![s] = Released(pc[s], @)]
    /\ UNCHANGED hpc

\* A Handle call in progress: hpc[h] names it.  It takes no lock.
HBegin(h, op) ==
    /\ Held(h) /\ hpc[h] = "idle"
    /\ hpc' = [hpc EXCEPT ![h] = op]
    /\ UNCHANGED <<host, handles, streams, pc, lock>>

HEnd(h, n) ==
    /\ hpc[h] # "idle"
    /\ HandleEffect(h, hpc[h], n)
    /\ hpc' = [hpc EXCEPT ![h] = "idle"]
    /\ UNCHANGED <<pc, lock>>

\* One file, its Handle and the streams built from it, used by several threads.
ThreadStep ==
    \/ \E p \in Paths : (\A h \in Handles : handles[h].st = "free") /\ Free(FS_create(p))
    \/ \E h \in Handles, moved \in BOOLEAN : Built < NumStreams /\ Free(new_reader(h, moved))
    \/ \E h \in Handles, moved \in BOOLEAN : Built < NumStreams /\ Free(new_writer(h, moved))
    \/ \E s \in Streams, op \in StreamOps : Free(Begin(s, op))
    \/ \E s \in Streams : \E a \in ArgsOf(pc[s]) : Free(End(s, a))
    \/ \E h \in Handles, op \in HandleOps : Free(HBegin(h, op))
    \/ \E h \in Handles, n \in Offsets : Free(HEnd(h, n))

Threads == Init /\ [][ThreadStep]_vars

\* A write when the file has reached the largest size explored: the host
\* refuses it (EFBIG), write returns the error and the guard is dropped.
Refused(s) ==
    /\ Live(s) /\ pc[s] = "write"
    /\ \A buf \in WriteBufs : ~InBounds(s, "write", buf)
    /\ pc' = [pc EXCEPT ![s] = "idle"]
    /\ lock' = [lock EXCEPT ![s] = Released("write", @)]
    /\ UNCHANGED <<host, handles, streams, hpc>>

\* The arguments the running threads pass: as ArgsOf, with one value for the
\* bytes written (what the bytes are plays no part in locking).
RunArgs(op) ==
    IF op = "write" THEN {buf \in WriteBufs : \A i \in DOMAIN buf : buf[i] = MaxByte}
    ELSE ArgsOf(op)

\* The return of the call in progress on stream s, and on Handle h.
Return(s) == (\E a \in RunArgs(pc[s]) : Free(End(s, a))) \/ Free(Refused(s))
HReturn(h) == \E n \in Offsets : Free(HEnd(h, n))

\* One file, its Handle and its streams; calls begin and return in any order.
RunStep ==
    \/ (\A h \in Handles : handles[h].st = "free") /\ Free(FS_create("a"))
    \/ \E h \in Handles, moved \in BOOLEAN : Built < NumStreams /\ Free(new_reader(h, moved))
    \/ \E h \in Handles, moved \in BOOLEAN : Built < NumStreams /\ Free(new_writer(h, moved))
    \/ \E s \in Streams, op \in StreamOps : Free(Begin(s, op))
    \/ \E s \in Streams : Return(s)
    \/ \E h \in Handles, op \in HandleOps : Free(HBegin(h, op))
    \/ \E h \in Handles : HReturn(h)

\* Threads under a fair scheduler: a thread inside a call keeps running, so a
\* call that can return does.
Running_threads ==
    /\ Init /\ [][RunStep]_vars
    /\ \A s \in Streams : WF_vars(Return(s))
    /\ \A h \in Handles : WF_vars(HReturn(h))

\* ---------------------------------------------------------------- scripted callers
\* A caller that runs a fixed list of calls in order and logs what each call
\* returned.  A call is a tuple: its name, then its arguments.  Handles and
\* streams are named by the slot they get: the k-th create/open makes handle k,
\* the k-th new_reader/new_writer makes stream k.
Cur == script.calls[Len(script.log) + 1]
Is(op) == Len(script.log) < Len(script.calls) /\ Cur[1] = op
Logged(res) == script' = [script EXCEPT !.log = Append(@, res)]

ScriptStep ==
    \/ Is("create") /\ FS_create(Cur[2]) /\ Logged(LogFd_create(Cur[2]).res)
    \/ Is("open") /\ FS_open(Cur[2], Cur[3]) /\ Logged(LogFd_open(Cur[2], Cur[3]).res)
    \/ Is("rename") /\ FS_rename(Cur[2], Cur[3])
                    /\ Logged(fs_rename(Cur[2], Cur[3]).res)
    \/ Is("delete") /\ FS_delete(Cur[2]) /\ Logged(remove_file(Cur[2]).res)
    \/ Is("new_reader") /\ new_reader(Cur[2], Cur[3]) /\ Logged(Ok(FreeStream))
    \/ Is("new_writer") /\ new_writer(Cur[2], Cur[3]) /\ Logged(Ok(FreeStream))
    \/ Is("drop_handle") /\ DropHandle(Cur[2]) /\ Logged(Ok(0))
    \/ Is("drop_stream") /\ DropStream(Cur[2]) /\ Logged(Ok(0))
    \/ Is("h_truncate") /\ Handle_truncate(Cur[2], Cur[3])
                        /\ Logged(HandleCall(Cur[2], "truncate", Cur[3]).res)
    \/ Is("file_size") /\ Handle_file_size(Cur[2])
                       /\ Logged(HandleCall(Cur[2], "file_size", 0).res)
    \/ Is("sync") /\ Handle_sync(Cur[2]) /\ Logged(HandleCall(Cur[2], "sync", 0).res)
    \/ Is("write") /\ LogFile_write(Cur[2], Cur[3])
                   /\ Logged(StreamCall(Cur[2], "write", Cur[3]).res)
    \/ Is("flush") /\ LogFile_flush(Cur[2])
                   /\ Logged(StreamCall(Cur[2], "flush", 0).res)
    \/ Is("read") /\ LogFile_read(Cur[2], Cur[3])
                  /\ Logged(StreamCall(Cur[2], "read", Cur[3]).res)
    \/ Is("seek") /\ LogFile_seek(Cur[2], Cur[3])
                  /\ Logged(StreamCall(Cur[2], "seek", Cur[3]).res)
    \/ Is("truncate") /\ LogFile_truncate(Cur[2], Cur[3])
                      /\ Logged(StreamCall(Cur[2], "truncate", Cur[3]).res)
    \/ Is("allocate") /\ LogFile_allocate(Cur[2], Cur[3], Cur[4])
                      /\ Logged(StreamCall(Cur[2], "allocate", <<Cur[3], Cur[4]>>).res)

Script(name, calls) ==
    [name |-> name, calls |-> calls, log |-> <<>>, pre |-> NoFile, failed |-> {}]
Done(name) == script.name = name /\ Len(script.log) = Len(script.calls)

\* create, write through a writer, sync, read back through a new reader of the
\* same Handle; then the reader goes away and the writer and the Handle are used
\* again.
RoundTrip(p, buf, moved) ==
    Script("roundtrip",
        << <<"create", p>>, <<"new_writer", 1, FALSE>>, <<"write", 1, buf>>,
           <<"sync", 1>>, <<"new_reader", 1, moved>>, <<"seek", 2, <<"Start", 0>>>>,
           <<"read", 2, Len(buf)>>, <<"drop_stream", 2>>,
           <<"seek", 1, <<"Start", 0>>>>, <<"write", 1, buf>> >>
        \o (IF moved THEN <<>> ELSE << <<"file_size", 1>> >>))

\* create, write, truncate to n (through the stream or through the Handle),
\* file_size, read from 0 up to the end, read again.
WriteTruncateRead(p, buf, n, viaHandle) ==
    Script("truncate",
        << <<"create", p>>, <<"new_writer", 1, FALSE>>, <<"write", 1, buf>>,
           IF viaHandle THEN <<"h_truncate", 1, n>> ELSE <<"truncate", 1, n>>,
           <<"file_size", 1>>, <<"seek", 1, <<"Start", 0>>>>,
           <<"read", 1, MaxSize>>, <<"read", 1, MaxSize>> >>)

\* create, write some buffers through a writer, release the writer and the
\* Handle, open the path read-only, file_size.
WriteCloseReopen(p, bufs, moved) ==
    Script("reopen",
        << <<"create", p>>, <<"new_writer", 1, moved>> >>
        \o [k \in 1..Len(bufs) |-> <<"write", 1, bufs[k]>>]
        \o << <<"drop_stream", 1>> >>
        \o (IF moved THEN <<>> ELSE << <<"drop_handle", 1>> >>)
        \o << <<"open", p, "ReadOnly">>, <<"file_size", 2>> >>)

\* Three streams of one Handle; one writes, another is dropped, the path is
\* opened again, and the third reads.
WriteDropOpenRead(p, buf, perm) ==
    Script("alias",
        << <<"create", p>>, <<"new_writer", 1, FALSE>>, <<"new_reader", 1, FALSE>>,
           <<"new_reader", 1, FALSE>>, <<"write", 1, buf>>, <<"drop_stream", 3>>,
           <<"open", p, perm>>, <<"read", 2, 1>> >>)

\* Two streams of one Handle; one writes and truncates; the other may be
\* dropped; then allocate on the first, file_size, and a read.
WriteAllocateRead(p, buf, n, a, dropped) ==
    Script("allocate",
        << <<"create", p>>, <<"new_writer", 1, FALSE>>, <<"new_reader", 1, FALSE>>,
           <<"write", 1, buf>>, <<"truncate", 1, n>> >>
        \o (IF dropped THEN << <<"drop_stream", 2>> >> ELSE <<>>)
        \o << <<"allocate", 1, a[1], a[2]>>, <<"file_size", 1>>, <<"read", 1, MaxSize>> >>)

\* create p, write, rename p to q, open p, open q and read it through a reader.
WriteRenameOpen(p, q, buf, perm) ==
    Script("rename",
        << <<"create", p>>, <<"new_writer", 1, FALSE>>, <<"write", 1, buf>>,
           <<"rename", p, q>>, <<"open", p, perm>>, <<"open", q, perm>>,
           <<"new_reader", 2, TRUE>>, <<"read", 2, MaxSize>> >>)

\* rename of a path that holds no file, then open of both paths.
RenameMissing(p, q, perm) ==
    Script("rename_missing",
        << <<"rename", p, q>>, <<"open", q, perm>>, <<"open", p, perm>> >>)

\* open an existing file read-only, build two streams, read, then try to write
\* and to truncate through a stream and through the Handle; then one stream
\* is dropped, the path is opened read-write, and the write is tried again.
ReadOnlyUse(p, buf, n) ==
    Script("readonly",
        << <<"open", p, "ReadOnly">>, <<"new_reader", 1, FALSE>>,
           <<"new_reader", 1, FALSE>>, <<"read", 1, MaxSize>>,
           <<"seek", 1, <<"Start", 0>>>>, <<"write", 1, buf>>, <<"truncate", 1, n>>,
           <<"h_truncate", 1, n>>, <<"file_size", 1>>, <<"drop_stream", 2>>,
           <<"open", p, "ReadWrite">>, <<"write", 1, buf>> >>)

\* open a path that holds no file, twice.
OpenMissing(p, perm1, perm2) ==
    Script("open_missing", << <<"open", p, perm1>>, <<"open", p, perm2>> >>)

\* create, write, create the same path again, then use the second Handle:
\* file_size, a read and a write through a stream of it.
CreateTwice(p, buf) ==
    Script("create_twice",
        << <<"create", p>>, <<"new_writer", 1, FALSE>>, <<"write", 1, buf>>,
           <<"create", p>>, <<"file_size", 2>>, <<"new_reader", 2, FALSE>>,
           <<"read", 2, MaxSize>>, <<"seek", 2, <<"Start", 0>>>>, <<"write", 2, buf>> >>)

\* Every operation once: two Handles on one file, a stream of each, the stream
\* and Handle operations, rename, delete, and the drops.
EveryCall(p, q, buf, perm) ==
    Script("every_call",
        << <<"create", p>>, <<"open", p, perm>>, <<"new_writer", 1, FALSE>>,
           <<"new_reader", 2, TRUE>>, <<"write", 1, buf>>, <<"flush", 1>>,
           <<"seek", 2, <<"Start", 0>>>>, <<"read", 2, MaxSize>>,
           <<"truncate", 1, 1>>, <<"allocate", 1, 0, MaxSize>>, <<"h_truncate", 1, 0>>,
           <<"file_size", 1>>, <<"sync", 1>>, <<"rename", p, q>>, <<"delete", q>>,
           <<"drop_stream", 1>>, <<"drop_stream", 2>>, <<"drop_handle", 1>> >>)

\* create, write, truncate through the stream, write again through it, file_size.
WriteTruncateWrite(p, buf, n, buf2) ==
    Script("truncate_write",
        << <<"create", p>>, <<"new_writer", 1, FALSE>>, <<"write", 1, buf>>,
           <<"truncate", 1, n>>, <<"write", 1, buf2>>, <<"file_size", 1>> >>)

\* Two streams of one Handle truncate in turn, the Handle truncates, every other
\* operation runs on stream 1, stream 2 goes away (closing the descriptor) and a
\* last truncate through stream 1 fails.
TruncateAndUse(p, n, m, k) ==
    Script("offset",
        << <<"create", p>>, <<"new_writer", 1, FALSE>>, <<"new_reader", 1, FALSE>>,
           <<"truncate", 1, n>>, <<"truncate", 2, m>>, <<"h_truncate", 1, 0>>,
           <<"write", 1, <<1>>>>, <<"flush", 1>>, <<"seek", 1, <<"Start", 0>>>>,
           <<"read", 1, 1>>, <<"allocate", 1, 0, MaxSize>>,
           <<"drop_stream", 2>>, <<"truncate", 1, k>> >>)

\* Two streams of one Handle on a file: two seeks through the first, file_size,
\* and the position as the second stream sees it.
SeekTwice(p, first, from) ==
    Script("seek_twice",
        << <<"create", p>>, <<"new_writer", 1, FALSE>>, <<"new_reader", 1, FALSE>>,
           <<"seek", 1, first>>, <<"seek", 1, from>>, <<"file_size", 1>>,
           <<"seek", 2, <<"Current", 0>>>> >>)

BufLists == {<<>>} \cup {<<b>> : b \in WriteBufs}
              \cup {<<b, c>> : b, c \in {w \in WriteBufs : 2 * Len(w) <= MaxSize}}

OldFiles == {NoFile} \cup {OldFile(d) : d \in {<<>>} \cup WriteBufs}

\* The caller starts script sc on path p, where the host holds file pre or none.
Start(p, pre, sc) ==
    /\ dir = [q \in Paths |-> IF pre.exists /\ q = p THEN 1 ELSE 0]
    /\ inodes = [i \in Inodes |-> IF pre.exists /\ i = 1
                                   THEN [used |-> TRUE, data |-> pre.data]
                                   ELSE NoInode]
    /\ fdt = [x \in Fds |-> ClosedFd]
    /\ handles = [h \in Handles |-> NoHandle]
    /\ streams = [s \in Streams |-> NoStream]
    /\ pc = [s \in Streams |-> "idle"]
    /\ hpc = [h \in Handles |-> "idle"]
    /\ lock = [s \in Streams |-> Unlocked]
    /\ script = [sc EXCEPT !.pre = pre]

ScenarioInit ==
    \E p \in Paths :
       \/ \E pre \in OldFiles, buf \in WriteBufs, moved \in BOOLEAN :
             Start(p, pre, RoundTrip(p, buf, moved))
       \/ \E pre \in OldFiles, buf \in WriteBufs, viaHandle \in BOOLEAN :
             \E n \in 0..Len(buf) : Start(p, pre, WriteTruncateRead(p, buf, n, viaHandle))
       \/ \E pre \in OldFiles, bufs \in BufLists, moved \in BOOLEAN :
             Start(p, pre, WriteCloseReopen(p, bufs, moved))
       \/ \E pre \in OldFiles, buf \in WriteBufs, perm \in Perms :
             Start(p, pre, WriteDropOpenRead(p, buf, perm))
       \/ \E buf \in WriteBufs, n \in Offsets, a \in AllocArgs, dropped \in BOOLEAN :
             Start(p, NoFile, WriteAllocateRead(p, buf, n, a, dropped))
       \/ \E pre \in OldFiles, q \in Paths \ {p}, buf \in WriteBufs, perm \in Perms :
             Start(p, pre, WriteRenameOpen(p, q, buf, perm))
       \/ \E pre \in OldFiles, q \in Paths \ {p}, perm \in Perms :
             Start(p, pre, RenameMissing(q, p, perm))
       \/ \E pre \in OldFiles \ {NoFile}, buf \in WriteBufs, n \in Offsets :
             Start(p, pre, ReadOnlyUse(p, buf, n))
       \/ \E perm1, perm2 \in Perms : Start(p, NoFile, OpenMissing(p, perm1, perm2))
       \/ \E pre \in OldFiles, buf \in WriteBufs :
             Start(p, pre, CreateTwice(p, buf))
       \/ \E q \in Paths \ {p}, buf \in WriteBufs, perm \in Perms :
             Start(p, NoFile, EveryCall(p, q, buf, perm))
       \/ \E n, m, k \in Offsets : Start(p, NoFile, TruncateAndUse(p, n, m, k))
       \/ \E pre \in OldFiles \ {NoFile}, first, from \in SeekFroms :
             Start(p, pre, SeekTwice(p, first, from))
       \/ \E buf, buf2 \in WriteBufs, n \in Offsets :
             /\ Len(buf) + Len(buf2) <= MaxSize
             /\ Start(p, NoFile, WriteTruncateWrite(p, buf, n, buf2))

Scenarios == ScenarioInit /\ [][ScriptStep]_vars

\* ---------------------------------------------------------------- host failures
\* The host may fail any call for a reason the model does not hold (a signal,
\* a device error).  Every method makes its host call once and hands the
\* IoResult to its caller: open and create by .map, truncate by ?, the others
\* as the value of the method.  On Err nothing is built and nothing is stored.
HostErrors == {"Interrupted", "Other"}
Fallible == {"create", "open", "delete", "rename", "read", "write", "seek", "flush",
             "truncate", "h_truncate", "file_size", "sync"}

\* script.failed: the calls the host failed, each with the error it gave.
Failed(kind) == script.failed \cup {<<Len(script.log) + 1, kind>>}

\* A method that calls the host again after an interrupted call, and succeeds.
HostFails_retried(kind) ==
    /\ Len(script.log) < Len(script.calls) /\ Cur[1] \in Fallible
    /\ Cardinality(script.failed) < MaxFaults
    /\ script' = [script EXCEPT
                    !.log = Append(@, IF kind = "Interrupted" THEN Ok(0) ELSE Err(kind)),
                    !.failed = Failed(kind)]
    /\ UNCHANGED <<host, handles, streams, conc>>

\* The host fails the current call with kind: the method returns that error.
HostFails(kind) ==
    /\ Len(script.log) < Len(script.calls) /\ Cur[1] \in Fallible
    /\ Cardinality(script.failed) < MaxFaults
    /\ script' = [script EXCEPT !.log = Append(@, Err(kind)), !.failed = Failed(kind)]
    /\ UNCHANGED <<host, handles, streams, conc>>

FaultInit ==
    \E p \in Paths, q \in Paths, buf \in WriteBufs, perm \in Perms :
        p # q /\ Start(p, NoFile, EveryCall(p, q, buf, perm))

FaultStep ==
    \/ ScriptStep
    \/ \E kind \in HostErrors : HostFails(kind)

Faults == FaultInit /\ [][FaultStep]_vars

\* C14: every fallible operation makes one attempt and returns its outcome:
\* each call yields exactly one result; a call the host fails returns that
\* error, never a success, and leaves files, descriptors, Handles and streams
\* as they were.
C14_ErrorsReturnedAtOnce ==
    /\ [][Len(script'.log) = Len(script.log) + 1]_vars
    /\ [](\A f \in script.failed : script.log[f[1]] = Err(f[2]))
    /\ [][script'.failed # script.failed
            => UNCHANGED <<dir, inodes, fdt, handles, streams>>]_vars

\* The host interrupted a write; the stream returned the error and the caller
\* went on to the next calls.
C14_InterruptedWrite ==
    \E f \in script.failed :
        /\ script.calls[f[1]][1] = "write" /\ f[2] = "Interrupted"
        /\ script.log[f[1]] = Err("Interrupted")
        /\ Done("every_call")

\* ---------------------------------------------------------------- ownership claims
StreamsOf(h) == {s \in Streams : Live(s) /\ streams[s].h = h}
Referenced(h) == Held(h) \/ StreamsOf(h) # {}

\* C1: the descriptor behind a Handle is closed at most once, never while a
\* Handle reference or a stream of that Handle is still live, and exactly once
\* when the last of them has been dropped.
C1_ReleasedOnceAtLastDrop ==
    \A h \in Handles :
        /\ handles[h].closes <= 1
        /\ handles[h].closes >= 1 => ~Referenced(h)
        /\ handles[h].st # "free" /\ ~Referenced(h) => handles[h].closes = 1

\* The descriptor of one Handle has been closed twice, once per stream.
C1_ClosedTwice == \E h \in Handles : handles[h].closes = 2

\* The values that close the descriptor of Handle h when they are dropped: the
\* LogFd in the Arc, and the copy in each stream.
Owners(h) == (IF handles[h].st = "live" THEN 1 ELSE 0) + Cardinality(StreamsOf(h))

\* C2: while a Handle or a stream of it is live, exactly one owning value of the
\* descriptor exists, and the descriptor the Handle holds is open.
C2_OneOwner ==
    \A h \in Handles :
        Referenced(h) => Owners(h) = 1 /\ fdt[handles[h].fd].open

\* A held Handle and a stream built from it both own the descriptor.
C2_TwoOwners == \E h \in Handles : Held(h) /\ StreamsOf(h) # {} /\ Owners(h) = 2

\* ---------------------------------------------------------------- locking claims
Mutating == {"write", "seek", "truncate", "sync"}
InProgress(h) == {s \in StreamsOf(h) : pc[s] # "idle"}
Running(h) == Cardinality(InProgress(h)) + (IF hpc[h] # "idle" THEN 1 ELSE 0)

\* C3: while a write, seek, truncate or sync is executing on a Handle or on a
\* stream derived from it, no other operation is executing on that Handle or on
\* any of its streams.
C3_MutatorsExclude ==
    \A h \in Handles :
        ((\E s \in InProgress(h) : pc[s] \in Mutating) \/ hpc[h] \in Mutating)
            => Running(h) = 1

\* Two streams of one Handle are both inside write.
C3_TwoWriters ==
    \E h \in Handles : \E s1, s2 \in StreamsOf(h) :
        s1 # s2 /\ pc[s1] = "write" /\ pc[s2] = "write"

\* ---------------------------------------------------------------- position claims
AliasFile == inodes[dir[script.calls[1][2]]].data
AliasBuf == script.calls[5][3]

\* C4: after stream A wrote k bytes from position 0, a read through stream B of
\* the same Handle, with no seek on B in between, starts at position k.
C4_SharedPosition ==
    (script.name = "alias" /\ Len(script.log) >= 8)
        => script.log[8] = OkData(ReadAt(AliasFile, Len(AliasBuf), 1))

\* B's read returned the first byte of the file: it started at position 0.
C4_ReadFromZero ==
    /\ Done("alias") /\ ~script.pre.exists
    /\ script.log[5] = Ok(Len(AliasBuf))
    /\ script.log[8] = OkData(<<AliasBuf[1]>>)

\* ---------------------------------------------------------------- truncate claims
\* After a truncate to n through Handle h or one of its streams: file_size on h
\* is n, each stream of h finds the end of file at n, the bytes below the old
\* size are kept and the bytes from the old size up to n are zero.
Resized(h, n) ==
    LET x == handles[h].fd
        old == inodes[fdt[x].ino].data
    IN  /\ (LogFd_size(x).res)' = Ok(n)
        /\ \A s \in StreamsOf(h) : (File_seek(streams[s].fd, <<"End", 0>>).res)' = Ok(n)
        /\ \A k \in 1..n :
              (inodes[fdt[x].ino].data[k])' = (IF k <= Len(old) THEN old[k] ELSE 0)

\* C5: a successful truncate(n), on a Handle or on a stream of it, leaves
\* file_size() on that Handle equal to n whatever the size was before; every
\* stream of the Handle sees the new size; bytes added by an extension are zero.
\* (A truncate leaves the directory, the descriptors and the Handles alone: a
\* step that changes one of them is no truncate and is not looked at further.)
C5_TruncateSetsSize ==
    [][UNCHANGED <<dir, fdt, handles>> => \A n \in Offsets :
          /\ \A h \in Handles :
                (Handle_truncate(h, n) /\ HandleCall(h, "truncate", n).res.ok)
                    => Resized(h, n)
          /\ \A s \in Streams :
                (LogFile_truncate(s, n) /\ StreamCall(s, "truncate", n).res.ok)
                    => Resized(streams[s].h, n)]_vars

\* A stream's truncate extended its file: the size is the offset it recorded
\* and the last byte is a zero.
C5_Extended ==
    \E s \in Streams :
        LET e == fdt[streams[s].fd] IN
        /\ Live(s) /\ streams[s].offset > 0 /\ e.open
        /\ Len(inodes[e.ino].data) = streams[s].offset
        /\ inodes[e.ino].data[streams[s].offset] = 0

TruncBuf == script.calls[3][3]
TruncN == script.calls[4][3]

\* C6: write m bytes to a newly created file, truncate to n <= m: file_size is
\* n, a read from position 0 returns the first n bytes written, and the next
\* read returns no bytes.
C6_TruncateKeepsPrefix ==
    (script.name = "truncate" /\ ~script.pre.exists) =>
        /\ Len(script.log) >= 5 => script.log[5] = Ok(TruncN)
        /\ Len(script.log) >= 7 => script.log[7] = OkData(SubSeq(TruncBuf, 1, TruncN))
        /\ Len(script.log) >= 8 => script.log[8] = OkData(<<>>)

\* A new file was cut to a shorter, non-empty prefix, which was read back.
C6_PrefixRead ==
    /\ Done("truncate") /\ ~script.pre.exists
    /\ 0 < TruncN /\ TruncN < Len(TruncBuf)
    /\ script.log[7] = OkData(SubSeq(TruncBuf, 1, TruncN))

\* ---------------------------------------------------------------- round trips
TripBuf == script.calls[3][3]

\* C7: bytes written at position 0 through a writer, then synced, are read back
\* by a new reader of the same Handle that seeks to 0; after that the writer
\* and the Handle still work: every call of the run succeeds.
C7_RoundTripUsable ==
    script.name = "roundtrip" =>
        /\ \A k \in 1..Len(script.log) : script.log[k].ok
        /\ Len(script.log) >= 7 => script.log[7] = OkData(TripBuf)
        /\ Len(script.log) >= 10 => script.log[10] = Ok(Len(TripBuf))

\* The reader returned the bytes; once it was dropped the writer's seek and
\* write failed.
C7_WriterUnusable ==
    /\ Done("roundtrip")
    /\ script.log[7] = OkData(TripBuf)
    /\ script.log[9] = Err("BadFd") /\ script.log[10] = Err("BadFd")

RECURSIVE Written(_)
Written(calls) ==
    IF calls = <<>> THEN 0
    ELSE (IF Head(calls)[1] = "write" THEN Len(Head(calls)[3]) ELSE 0)
         + Written(Tail(calls))

Reopened ==
    LET last == Len(script.log) IN
    /\ script.log[last - 1].ok
    /\ script.log[last] = Ok(Written(script.calls))

\* C9 as stated: for every path, after create, writes and release, open
\* read-only succeeds and file_size is the number of bytes written.
C9_ReopenSize == Done("reopen") => Reopened

\* C9, for a path that held no file before create: after create, writes and
\* release, open read-only succeeds and file_size is the number of bytes written.
C9_ReopenSizeOfNewFile == (Done("reopen") /\ ~script.pre.exists) => Reopened

\* A new file written up to MaxSize bytes was reopened with that size.
C9_ReopenedFull ==
    /\ Done("reopen") /\ ~script.pre.exists
    /\ Written(script.calls) = MaxSize
    /\ script.log[Len(script.log)] = Ok(MaxSize)

\* ---------------------------------------------------------------- allocate claims
AllocAt == CHOOSE k \in 1..Len(script.calls) : script.calls[k][1] = "allocate"

\* C8: allocate(offset, size) on a stream returns success and changes nothing:
\* not the file's size or content, not the descriptor's position, not the
\* stream's recorded offset; a read after it returns what it would have
\* returned before it.
C8_AllocateChangesNothing ==
    [][Is("allocate") =>
          LET x == streams[Cur[2]].fd IN
          /\ script'.log[Len(script'.log)] = Ok(0)
          /\ UNCHANGED <<dir, inodes, fdt, handles, streams>>
          /\ (LogFd_size(x).res)' = LogFd_size(x).res
          /\ \A len \in ReadLens : (File_read(x, len).res)' = File_read(x, len).res]_vars

\* allocate returned success on a stream with a recorded offset, and the read
\* after it returned bytes.
C8_Allocated ==
    /\ Done("allocate")
    /\ script.log[AllocAt] = Ok(0)
    /\ streams[1].offset > 0
    /\ script.log[Len(script.log)].ok /\ script.log[Len(script.log)].data # <<>>

\* ---------------------------------------------------------------- delete claims
\* C10: delete of a path that does not exist fails with NotFound and changes
\* nothing; while a path does not exist, open of it fails with NotFound for
\* either permission; a successful delete leaves the path not existing, and it
\* stays so until a create of it (or a rename onto it) makes it exist again.
C10_DeleteThenNotFound ==
    /\ [](\A p \in Paths :
            dir[p] = 0 =>
                /\ remove_file(p) = Same(Err("NotFound"))
                /\ \A perm \in Perms : LogFd_open(p, perm) = Same(Err("NotFound")))
    /\ [][\A p \in Paths :
            /\ (dir[p] # 0 /\ FS_delete(p)) => dir'[p] = 0
            /\ (dir[p] = 0 /\ dir'[p] # 0)
                  => (FS_create(p) \/ \E q \in Paths : FS_rename(q, p))]_vars

\* A file was deleted while a Handle had it open: its path does not exist.
C10_DeletedWhileOpen ==
    \E h \in Handles :
        LET e == fdt[handles[h].fd] IN
        /\ Held(h) /\ e.open
        /\ \A p \in Paths : dir[p] # e.ino

\* ---------------------------------------------------------------- rename claims
RenameBuf == script.calls[3][3]

\* C11: after create(a) and a successful rename(a, b), open(b, perm) succeeds
\* on a file with a's former content and open(a, perm) fails with NotFound; a
\* rename whose source does not exist fails and changes nothing: each path
\* opens, or fails to open, as it did before.
C11_RenameMovesFile ==
    /\ [](script.name = "rename" =>
            /\ Len(script.log) >= 4 => script.log[4].ok
            /\ Len(script.log) >= 5 => script.log[5] = Err("NotFound")
            /\ Len(script.log) >= 6 => script.log[6].ok
            /\ Len(script.log) >= 8 =>
                  script.log[8] = OkData(Overwrite(script.pre.data, 0, RenameBuf)))
    /\ [](script.name = "rename_missing" =>
            /\ Len(script.log) >= 1 => script.log[1] = Err("NotFound")
            /\ Len(script.log) >= 2 => script.log[2].ok = script.pre.exists
            /\ Len(script.log) >= 3 => script.log[3] = Err("NotFound"))
    /\ [][(Is("rename") /\ dir[Cur[2]] = 0)
            => UNCHANGED <<dir, inodes, fdt, handles, streams>>]_vars

\* A written file was renamed and its content read back under the new path,
\* while the old path was not found.
C11_Renamed ==
    /\ Done("rename")
    /\ script.log[5] = Err("NotFound")
    /\ script.log[8] = OkData(RenameBuf) /\ Len(RenameBuf) = MaxSize

\* ---------------------------------------------------------------- open claims
ScriptPath == script.calls[1][2]

\* C12: open of a path that holds no file fails with NotFound and the path
\* still holds no file.  Through a Handle opened ReadOnly on an existing file,
\* and through its streams, reads succeed, every write and every truncate
\* fails, and the file keeps its size and content.
C12_OpenPermissions ==
    /\ script.name = "open_missing" =>
          /\ \A k \in 1..Len(script.log) : script.log[k] = Err("NotFound")
          /\ dir[ScriptPath] = 0
    /\ script.name = "readonly" =>
          /\ inodes[dir[ScriptPath]].data = script.pre.data
          /\ Len(script.log) >= 1 => script.log[1].ok
          /\ Len(script.log) >= 4 => script.log[4] = OkData(script.pre.data)
          /\ \A k \in {6, 7, 8, 12} : Len(script.log) >= k => ~script.log[k].ok
          /\ Len(script.log) >= 9 => script.log[9] = Ok(Len(script.pre.data))

\* A stream of a Handle opened ReadOnly wrote to the file.
C12_ReadOnlyWrote ==
    /\ Done("readonly")
    /\ ~script.log[6].ok /\ script.log[12].ok
    /\ inodes[dir[ScriptPath]].data # script.pre.data

\* ---------------------------------------------------------------- create claims
TwiceFile == Overwrite(script.pre.data, 0, script.calls[3][3])

\* C13: create(path) opens or creates and never replaces: where the path holds
\* no file it makes an empty one, where it holds a file the file keeps its size
\* and content; either way the Handle it returns has a descriptor of its own,
\* open for reading and writing, at position 0.
C13_CreateOpensOrCreates ==
    /\ [][Is("create") =>
            LET p == Cur[2]
                x == script'.log[Len(script'.log)].n
            IN  /\ script'.log[Len(script'.log)].ok
                /\ dir'[p] # 0
                /\ dir[p] # 0 => dir'[p] = dir[p]
                /\ inodes'[dir'[p]].data = (IF dir[p] = 0 THEN <<>> ELSE inodes[dir[p]].data)
                /\ ~fdt[x].open
                /\ fdt'[x] = [open |-> TRUE, ino |-> dir'[p], pos |-> 0, wr |-> TRUE]]_vars
    /\ [](script.name = "create_twice" =>
            /\ Len(script.log) >= 5 => script.log[5] = Ok(Len(TwiceFile))
            /\ Len(script.log) >= 7 => script.log[7] = OkData(TwiceFile)
            /\ Len(script.log) >= 9 => script.log[9].ok)

\* A second create of a path found the written file as it was, read it from
\* position 0 and wrote to it.
C13_CreatedOverExisting ==
    /\ Done("create_twice")
    /\ Len(TwiceFile) = MaxSize
    /\ script.log[7] = OkData(TwiceFile) /\ script.log[9].ok

\* ---------------------------------------------------------------- lifetime claims
\* C15: the descriptor behind a Handle is open, and has never been closed, for
\* as long as a reference to the Handle or a stream built from it is live.
C15_OpenWhileReferenced ==
    \A h \in Handles :
        Referenced(h) => handles[h].closes = 0 /\ fdt[handles[h].fd].open

\* One stream of a Handle was dropped; the Handle is still held, another of
\* its streams is live, and the descriptor they use is closed.
C15_LiveOnClosed ==
    \E h \in Handles :
        /\ Held(h) /\ StreamsOf(h) # {}
        /\ handles[h].closes = 1
        /\ ~fdt[handles[h].fd].open

\* ---------------------------------------------------------------- offset claims
AfterN == script.calls[4][3]
AfterBuf == script.calls[5][3]

\* C16: after a successful truncate(offset) through a stream, the next write
\* of k bytes through that stream begins at or before the new end of file,
\* wherever the position was: the file is then at most offset + k bytes long.
C16_WriteAfterTruncate ==
    (script.name = "truncate_write" /\ Len(script.log) >= 5 /\ script.log[4].ok) =>
        /\ script.log[5] = Ok(Len(AfterBuf))
        /\ fdt[streams[1].fd].pos - Len(AfterBuf) <= AfterN
        /\ Len(inodes[dir[ScriptPath]].data) <= AfterN + Len(AfterBuf)
        /\ Len(script.log) >= 6 => script.log[6].n <= AfterN + Len(AfterBuf)

\* The file was cut to nothing and the next write landed past its start,
\* behind a zero byte nobody wrote.
C16_GapAfterTruncate ==
    /\ Done("truncate_write")
    /\ script.log[4].ok /\ AfterN = 0 /\ streams[1].offset = 0
    /\ script.log[6] = Ok(Len(script.calls[3][3]) + Len(AfterBuf))
    /\ inodes[dir[ScriptPath]].data[1] = 0

\* The argument of the last truncate through stream s that returned Ok among
\* the first k calls of the script, 0 when there is none.
RECURSIVE Recorded(_, _)
Recorded(s, k) ==
    IF k = 0 THEN 0
    ELSE LET c == script.calls[k] IN
         IF c[1] = "truncate" /\ c[2] = s /\ script.log[k].ok THEN c[3]
         ELSE Recorded(s, k - 1)

\* C17: a stream's offset field is 0 when the stream is built and afterwards
\* is the argument of the most recent truncate through that stream that
\* succeeded; failed truncates, every other stream operation, truncates through
\* other streams and Handle.truncate leave it as it was.
C17_OffsetIsLastTruncate ==
    \A s \in Streams :
        Live(s) => streams[s].offset = Recorded(s, Len(script.log))

\* Stream 1 kept the offset of its own truncate through the other stream's
\* truncate, the Handle's, every other operation and its own failed truncate.
C17_OffsetKept ==
    /\ Done("offset")
    /\ script.log[4].ok /\ script.log[5].ok /\ script.log[6].ok
    /\ ~script.log[13].ok
    /\ script.calls[4][3] \notin {0, script.calls[5][3], script.calls[13][3]}
    /\ streams[1].offset = script.calls[4][3]

\* A step after which the program is where it was but for the offset field of
\* some stream: a truncate to the size the file already has.
OnlyOffsetMoved ==
    /\ UNCHANGED <<host, handles, conc>>
    /\ streams' # streams
    /\ \A s \in Streams : [streams'[s] EXCEPT !.offset = streams[s].offset] = streams[s]

\* C18: offset is never consulted.  In two states that differ only in the
\* offset field of a stream, every operation on every stream and Handle
\* returns the same result and leaves the same directory, file contents, file
\* sizes and positions; so two runs of the same operations from such states
\* stay equal in all of these.
C18_OffsetNeverRead ==
    [][OnlyOffsetMoved =>
          /\ \A s \in Streams : Live(s) =>
                \A op \in StreamOps : \A a \in ArgsOf(op) :
                    StreamCall(s, op, a)' = StreamCall(s, op, a)
          /\ \A h \in Handles : Held(h) =>
                \A op \in HandleOps : \A n \in Offsets :
                    HandleCall(h, op, n)' = HandleCall(h, op, n)]_vars

\* Two live streams of one open file whose offsets differ, one of them equal
\* to the size of the file and away from the shared position.
C18_OffsetsApart ==
    \E s, u \in Streams :
        /\ Live(s) /\ Live(u) /\ streams[s].fd = streams[u].fd
        /\ fdt[streams[s].fd].open /\ fdt[streams[s].fd].wr
        /\ streams[s].offset = Len(inodes[fdt[streams[s].fd].ino].data)
        /\ streams[s].offset > 0 /\ streams[u].offset = 0
        /\ fdt[streams[s].fd].pos # streams[s].offset

\* ---------------------------------------------------------------- seek
\* Where a seek from position pos in a file of size bytes is asked to go.
Asked(pos, size, from) ==
    CASE from[1] = "Start" -> from[2]
      [] from[1] = "Current" -> pos + from[2]
      [] from[1] = "End" -> size + from[2]
SeekSize == Len(script.pre.data)
SeekFirst == IF Asked(0, SeekSize, script.calls[4][3]) < 0 THEN 0
             ELSE Asked(0, SeekSize, script.calls[4][3])
SeekAsked == Asked(SeekFirst, SeekSize, script.calls[5][3])

\* C19: seek moves the position the streams of the file share to the target
\* (Start: n, Current: position + k, End: size + k) and returns it; a negative
\* target fails and leaves position, size and content as they were; a seek past
\* the end of the file does not change its size.
C19_SeekSetsPosition ==
    script.name = "seek_twice" =>
        /\ inodes[dir[ScriptPath]].data = script.pre.data
        /\ Len(script.log) >= 5 =>
              /\ script.log[5] = IF SeekAsked < 0 THEN Err("InvalidInput") ELSE Ok(SeekAsked)
              /\ fdt[streams[1].fd].pos = IF SeekAsked < 0 THEN SeekFirst ELSE SeekAsked
        /\ Len(script.log) >= 6 => script.log[6] = Ok(SeekSize)
        /\ Len(script.log) >= 7 =>
              script.log[7] = Ok(IF SeekAsked < 0 THEN SeekFirst ELSE SeekAsked)

\* A seek went past the end of the file; the other stream sees the position.
C19_PastEnd ==
    /\ Done("seek_twice")
    /\ SeekAsked > SeekSize /\ SeekFirst # SeekAsked
    /\ script.log[5] = Ok(SeekAsked) /\ script.log[7] = Ok(SeekAsked)
    /\ script.log[6] = Ok(SeekSize)

\* A seek to before the start of the file failed and moved nothing.
C19_Negative ==
    /\ Done("seek_twice")
    /\ SeekAsked < 0 /\ SeekFirst > 0
    /\ ~script.log[5].ok /\ script.log[7] = Ok(SeekFirst)

\* ---------------------------------------------------------------- locking
\* C20: no stream operation can deadlock.  A stream's lock is free whenever
\* an operation is invoked on it, an operation in progress holds that one lock
\* once, in its own mode, and nothing else, the lock is free again when the
\* operation has returned, with Ok or with an error; and under a fair scheduler
\* every operation that was invoked returns.
C20_NoDeadlock ==
    /\ [](\A s \in Streams :
            /\ Idle(s) => lock[s] = Unlocked
            /\ ~Idle(s) => lock[s] = Locked(pc[s], Unlocked)
            /\ (Live(s) /\ Idle(s)) => \A op \in StreamOps : CanLock(op, lock[s]))
    /\ \A s \in Streams : (pc[s] # "idle") ~> (pc[s] = "idle")
    /\ \A h \in Handles : (hpc[h] # "idle") ~> (hpc[h] = "idle")

\* Every stream of a Handle is inside a call, one with its lock taken for
\* writing and one for reading, the Handle is inside a call of its own, and the
\* write in progress is one the host will refuse.
C20_AllInside ==
    \E h \in Handles : \E s1, s2 \in StreamsOf(h) :
        /\ pc[s1] = "write" /\ lock[s1].writer
        /\ pc[s2] = "truncate" /\ lock[s2].readers = 1
        /\ hpc[h] = "sync"
        /\ fdt[streams[s1].fd].pos = MaxSize

====
